---- MODULE Spec2Model ----
(***************************************************************************)
(* exachem/scf/scf_common.cpp: the canonical orthogonalizer                *)
(* (gensqrtinv in its dense build and in its USE_SCALAPACK build,          *)
(* gensqrtinv_atscf) and the collective gather utility                     *)
(* (gather_task_vectors), as run by a group of world_size processes,       *)
(* ranks 0 .. world_size-1.                                                *)
(*                                                                         *)
(* Numbers.  Eigenvalues are the perfect squares 1, 4, 9, ... so that      *)
(* sqrt is exact; a quotient a / b is kept as the pair <<a, b>> (not       *)
(* reduced), so 1.0 / sqrt(c) is <<1, ISqrt(c)>> and x * (1.0 / sqrt(c))   *)
(* is <<x, ISqrt(c)>>.  Entry r of eigenvector k is the integer 10*k + r.  *)
(***************************************************************************)
EXTENDS Integers, Sequences, FiniteSets, TLC

VARIABLES
  \* ---- the caller's side of gensqrtinv / gensqrtinv_atscf
  entries,        \* the entry points the caller runs, in order
  callNo,         \* the call now running (index in entries)
  world_size,     \* ec.pg().size()
  Sevals,         \* ascending eigenvalues of the overlap matrix S1
  threshold,      \* the absolute cutoff
  tao_atom,       \* number of indices of tao_atom (gensqrtinv_atscf)
  sys_data,       \* per process: nbf_orig, nbf, n_lindep
  tAO_ortho,      \* per process: size of scf_vars.tAO_ortho / tAO_atom_ortho
  \* ---- the locals of the running call
  pc,             \* per process: index of the next step of the entry point
  log,            \* per process: the steps it has executed in this call, in order
  eps,            \* rank 0: std::vector<T> eps(N)
  V,              \* rank 0: Matrix V (row k = eigenvector k), <<>> when 0 x 0
  first_above_thresh, \* rank 0: the iterator, as an offset from eps.begin()
  n_illcond,      \* per process
  n_cond,         \* per process
  condition_number,         \* per process, <<num, den>>
  result_condition_number,  \* per process, <<num, den>>
  X,              \* per process: Matrix X (gensqrtinv_atscf returns it)
  ret,            \* per process: the returned tuple, <<>> before the return
  \* ---- the distributed tensors of the running call
  X_tmp, eps_tamm, X_alpha, x_tamm,
  alloc_cols,     \* per process: the n_cond it sized the tensors with
  \* ---- what the run did
  oob,            \* rank 0 read eps[N], one past the end of eps
  crashed,        \* the process group was killed
  printed,        \* the eigenvalues listed by the warning, <<>> when none
  prev,           \* results of the previous call of this caller
  \* ---- gather_task_vectors
  nranks, s1vec, s2vec, ntask_vec, gpc, s1_count, s2_count, nt_count,
  disps_s1, disps_s2, disps_nt, s1_all, s2_all, ntasks_all, gret, aborted,
  gcalls,         \* per rank: the collectives it has called and left, in order
  \* ---- gensqrtinv built with USE_SCALAPACK
  use_elpa,       \* the build defines TAMM_USE_ELPA
  in_pg,          \* per process: scalapack_info.pg.is_valid()
  in_grid,        \* per process: grid.ipr() >= 0 and grid.ipc() >= 0
  S_BC, V_sca, V_t, X_t, X_comp,   \* the tensors of the block-cyclic path
  solver_failed,  \* the eigensolver reported an error
  terminated      \* tamm_terminate was called

orthoVars == <<entries, callNo, world_size, Sevals, threshold, tao_atom, sys_data,
               tAO_ortho, pc, log, eps, V, first_above_thresh, n_illcond, n_cond,
               condition_number, result_condition_number, X, ret, X_tmp, eps_tamm,
               X_alpha, x_tamm, alloc_cols, oob, crashed, printed, prev>>

gatherVars == <<nranks, s1vec, s2vec, ntask_vec, gpc, s1_count, s2_count, nt_count,
                disps_s1, disps_s2, disps_nt, s1_all, s2_all, ntasks_all, gret, aborted,
                gcalls>>

distVars == <<use_elpa, in_pg, in_grid, S_BC, V_sca, V_t, X_t, X_comp, solver_failed,
              terminated>>

\* what a step of gensqrtinv (dense build) or gensqrtinv_atscf leaves alone
restVars == <<gatherVars, distVars>>

vars == <<orthoVars, gatherVars, distVars>>

\* ------------------------------------------------------------------ bounds
MaxProcs == 2

MaxN == 3

MaxRoot == 3

MaxRanks == 3

MaxTasks == 4

\* a group of one process takes matrices up to MaxSerialN, roots up to MaxSerialRoot
MaxSerialN == 4

MaxSerialRoot == 4

\* ------------------------------------------------------------------ values
NoIter == -1

NoTensor == [alloc |-> FALSE, data |-> <<>>]

Zero == <<0, 1>>

Garbage == {0, 7}

Ranks == 0 .. (world_size - 1)

ISqrt(c) == CHOOSE r \in 0 .. c : r * r = c

Squares == {k * k : k \in 1 .. MaxRoot}

Thresholds == {0} \cup Squares \cup {k * k + 1 : k \in 1 .. MaxRoot}

IsAscending(s) == \A i \in 1 .. (Len(s) - 1) : s[i] <= s[i + 1]

Spectra == UNION {{s \in [1 .. n -> Squares] : IsAscending(s)} : n \in 1 .. MaxN}

SerialSquares == {k * k : k \in 1 .. MaxSerialRoot}

SerialThresholds == {0} \cup SerialSquares \cup {k * k + 1 : k \in 1 .. MaxSerialRoot}

SerialSpectra ==
  UNION {{s \in [1 .. n -> SerialSquares] : IsAscending(s)} : n \in 1 .. MaxSerialN}

Zeros(n) == [i \in 1 .. n |-> 0]

EigenVectors(n) == [k \in 1 .. n |-> [r \in 1 .. n |-> 10 * (k - 1) + (r - 1)]]

\* ------------------------------------------------------------------ pure parts
\* a strict comparison in place of >=
AboveThreshStrict(x, thr) == x > thr

\* the predicate of std::find_if
AboveThresh(x, thr) == x >= thr

\* a scan that stops at the last element instead of eps.end()
FindIfClamped(v, thr) ==
  IF \E i \in 1 .. Len(v) : AboveThresh(v[i], thr)
  THEN (CHOOSE i \in 1 .. Len(v) :
          /\ AboveThresh(v[i], thr)
          /\ \A j \in 1 .. (i - 1) : ~AboveThresh(v[j], thr)) - 1
  ELSE Len(v) - 1

\* std::find_if over eps: the offset of the first match, Len(v) for eps.end()
FindIf(v, thr) ==
  IF \E i \in 1 .. Len(v) : AboveThresh(v[i], thr)
  THEN (CHOOSE i \in 1 .. Len(v) :
          /\ AboveThresh(v[i], thr)
          /\ \A j \in 1 .. (i - 1) : ~AboveThresh(v[j], thr)) - 1
  ELSE Len(v)

\* eps.front() in place of eps.back()
Front(v) == v[1]

\* eps.back()
Back(v) == v[Len(v)]

\* a / b
Quot(a, b) == <<a, b>>

\* 1.0 / std::sqrt(c)
InvSqrt(c) == Quot(1, ISqrt(c))

\* x * q for an integer x and a quotient q
Mul(x, q) == Quot(x * q[1], q[2])

ZeroMatrix(nr, nc) == [a \in 1 .. nr |-> [b \in 1 .. nc |-> 0]]

\* the same of quotients
ZerosQ(n) == [i \in 1 .. n |-> Zero]

ZeroMatrixQ(nr, nc) == [a \in 1 .. nr |-> [b \in 1 .. nc |-> Zero]]

\* the integers of M as quotients x / 1
AsQuot(M) == [a \in 1 .. Len(M) |-> [b \in 1 .. Len(M[a]) |-> Quot(M[a][b], 1)]]

\* a * q for quotients a and q
MulQ(a, q) == Quot(a[1] * q[1], a[2] * q[2])

\* M.block(i0, j0, nr, nc)
Block(M, i0, j0, nr, nc) == [a \in 1 .. nr |-> [b \in 1 .. nc |-> M[i0 + a][j0 + b]]]

\* the transpose of an nr x nc matrix
Transpose(M, nr, nc) == [b \in 1 .. nc |-> [a \in 1 .. nr |-> M[a][b]]]

\* a slice that takes the first N - n_illcond rows of V: V.block(0, 0, ...)
SliceFromTop(Vm, nill, n) == Transpose(Block(Vm, 0, 0, n - nill, n), n - nill, n)

\* V.block(n_illcond, 0, N - n_illcond, N).transpose(): N x (N - n_illcond)
SliceRetained(Vm, nill, n) == Transpose(Block(Vm, nill, 0, n - nill, n), n - nill, n)

\* std::vector<T> epso(first_above_thresh, eps.end()), each c -> 1.0 / sqrt(c)
Epso(v, fat) == [i \in 1 .. (Len(v) - fat) |-> InvSqrt(v[fat + i])]

\* X_comp(mu, mu_o) = X_tmp(mu, mu_o) * eps_tamm(mu_o)
ScaleCols(Xt, et) == [r \in 1 .. Len(Xt) |-> [i \in 1 .. Len(Xt[r]) |-> Mul(Xt[r][i], et[i])]]

\* for i < n_cond: blas::scal(N, 1. / sqrt(*(first_above_thresh + i)), X_col, n_cond)
ScalLoop(Xm, v, fat, nc) ==
  [r \in 1 .. Len(Xm) |->
     [i \in 1 .. Len(Xm[r]) |->
        IF i <= nc THEN MulQ(Xm[r][i], Quot(1, ISqrt(v[fat + i]))) ELSE Xm[r][i]]]

\* ------------------------------------------------------------------ control flow
\* the steps with n_cond computed and the tensors allocated ahead of the broadcast
GensqrtinvStepsAllocEarly ==
  <<"eig", "filter", "ncond", "alloc", "bcast", "epso", "barrier1", "allocX",
    "slice", "barrier2", "scale", "ret">>

GensqrtinvSteps ==
  <<"eig", "filter", "bcast", "ncond", "alloc", "epso", "barrier1", "allocX",
    "slice", "barrier2", "scale", "ret">>

AtscfSteps ==
  <<"eig", "filter", "bcast", "ncond", "slice_a", "scal", "alloc_a", "put",
    "barrier_a", "get", "dealloc", "ret">>

\* gensqrtinv built with USE_SCALAPACK
ScaSteps ==
  <<"alloc_bc", "eig_bc", "dealloc_S", "filter", "bcast", "ncond", "alloc", "epso",
    "barrier1", "allocX_bc", "slice_bc", "dealloc_V", "alloc_comp", "scale_bc", "to_bc_X",
    "dealloc_comp", "ret">>

EntryPoints == {"gensqrtinv", "gensqrtinv_atscf"}

\* gensqrtinv in either build
IsGensqrtinv(e) == e \in {"gensqrtinv", "gensqrtinv_sca"}

StepsOf(e) ==
  IF e = "gensqrtinv" THEN GensqrtinvSteps
  ELSE IF e = "gensqrtinv_sca" THEN ScaSteps
  ELSE AtscfSteps

StepAt(e, k) == IF k \in 1 .. Len(StepsOf(e)) THEN StepsOf(e)[k] ELSE "done"

\* the blocks under if(world_rank == 0)
Rank0Only == {"eig", "filter", "epso", "slice", "slice_a", "scal", "put"}

\* a guard that leaves the broadcast out for a group of two
NeedsBroadcastOffByOne(ws) == ws > 2

\* if(world_size > 1) ec.pg().broadcast(&n_illcond, 0)
NeedsBroadcast(ws) == ws > 1

\* the blocks under if(scalapack_info.pg.is_valid())
PgOnly == {"alloc_bc", "eig_bc", "dealloc_S", "allocX_bc", "slice_bc", "dealloc_V", "to_bc_X"}

\* the block under if(grid.ipr() >= 0 and grid.ipc() >= 0)
GridOnly == {"eig_bc"}

Skipped(e, rank, ws, k) ==
  \/ rank # 0 /\ StepAt(e, k) \in Rank0Only
  \/ StepAt(e, k) = "bcast" /\ ~NeedsBroadcast(ws)
  \/ StepAt(e, k) \in PgOnly /\ ~in_pg[rank]
  \/ StepAt(e, k) \in GridOnly /\ ~in_grid[rank]

\* the first step at or after k that this rank executes
RECURSIVE NextPc(_, _, _, _)
NextPc(e, rank, ws, k) ==
  IF k > Len(StepsOf(e)) THEN k
  ELSE IF Skipped(e, rank, ws, k) THEN NextPc(e, rank, ws, k + 1)
  ELSE k

IndexOf(e, step) == CHOOSE k \in 1 .. Len(StepsOf(e)) : StepsOf(e)[k] = step

entry == entries[callNo]

At(p, step) == StepAt(entry, pc[p]) = step

Done(p) == pc[p] > Len(StepsOf(entry))

\* p has got past the step named step (or skips it and is past its place)
Past(p, step) == pc[p] > IndexOf(entry, step)

Goto(p) ==
  /\ pc' = [pc EXCEPT ![p] = NextPc(entry, p, world_size, pc[p] + 1)]
  /\ log' = [log EXCEPT ![p] = Append(@, StepAt(entry, pc[p]))]

\* the steps that are blocking collectives of the process group
Collectives ==
  {"bcast", "alloc", "barrier1", "allocX", "barrier2", "scale", "alloc_a", "barrier_a",
   "dealloc"}

\* a blocking collective returns once every process of the group has called it
AllArrived(k) == \A q \in Ranks : pc[q] >= k

\* N read from the rank the previous call stored: sys_data.nbf
NdimFromRank(p) == IF entry = "gensqrtinv" THEN sys_data[p].nbf ELSE tao_atom

\* const int64_t N
Ndim(p) == IF IsGensqrtinv(entry) THEN sys_data[p].nbf_orig ELSE tao_atom

\* ------------------------------------------------------------------ one call
inputs == <<entries, world_size, Sevals, threshold, tao_atom>>

FreshLocals(ws, n) ==
  /\ log = [p \in 0 .. (ws - 1) |-> <<>>]
  /\ eps = Zeros(n)
  /\ V = <<>>
  /\ first_above_thresh = NoIter
  /\ n_illcond = [p \in 0 .. (ws - 1) |-> 0]
  /\ n_cond = [p \in 0 .. (ws - 1) |-> 0]
  /\ condition_number = [p \in 0 .. (ws - 1) |-> Zero]
  /\ result_condition_number = [p \in 0 .. (ws - 1) |-> Zero]
  /\ X = [p \in 0 .. (ws - 1) |-> <<>>]
  /\ ret = [p \in 0 .. (ws - 1) |-> <<>>]
  /\ X_tmp = NoTensor
  /\ eps_tamm = NoTensor
  /\ X_alpha = NoTensor
  /\ x_tamm = NoTensor
  /\ alloc_cols = [p \in 0 .. (ws - 1) |-> -1]
  /\ printed = <<>>

NoPrev == [valid |-> FALSE]

InitWith(ncalls, sizes, spectra, thresholds) ==
  /\ entries \in [1 .. ncalls -> EntryPoints]
  /\ callNo = 1
  /\ world_size \in sizes
  /\ Sevals \in spectra
  /\ threshold \in thresholds
  /\ tao_atom = Len(Sevals)
  /\ sys_data = [p \in 0 .. (world_size - 1) |->
                   [nbf_orig |-> Len(Sevals), nbf |-> Len(Sevals), n_lindep |-> 0]]
  /\ tAO_ortho = [p \in 0 .. (world_size - 1) |-> Len(Sevals)]
  /\ pc = [p \in 0 .. (world_size - 1) |-> NextPc(entries[1], p, world_size, 1)]
  /\ FreshLocals(world_size, Len(Sevals))
  /\ oob = FALSE
  /\ crashed = FALSE
  /\ prev = NoPrev

InitOrtho(ncalls) == InitWith(ncalls, 1 .. MaxProcs, Spectra, Thresholds)

Running(p) == p \in Ranks /\ ~crashed /\ ~terminated

\* lapack::syevd on rank 0: ascending eigenvalues into eps, eigenvectors into V
Eig ==
  /\ Running(0) /\ At(0, "eig")
  /\ V' = EigenVectors(Ndim(0))
  /\ eps' = Sevals
  /\ Goto(0)
  /\ UNCHANGED <<inputs, callNo, sys_data, tAO_ortho, first_above_thresh, n_illcond,
                 n_cond, condition_number, result_condition_number, X, ret, X_tmp,
                 eps_tamm, X_alpha, x_tamm, alloc_cols, oob, crashed, printed, prev>>

\* the computation of lines 155-158 put back: eps.back() / eps.front()
ConditionNumberComputed(v, cur) == Quot(Back(v), v[1])

\* the filter block's computation of condition_number is commented out: the block
\* leaves the local as it is
ConditionNumberInFilter(v, cur) == cur

\* a warning for two or more linear dependencies only
WarnsAboveOne(n) == n > 1

\* if(n_illcond > 0)
Warns(n) == n > 0

\* for(int64_t i = 0; i < n_illcond; i++) cout << ... << eps[i] << endl
Listed(v, n) == [i \in 1 .. n |-> v[i]]

\* the values rank 0 has after the filter block, deref being what
\* *first_above_thresh read
Filtered(f, deref) ==
  /\ first_above_thresh' = f
  /\ result_condition_number' = [result_condition_number EXCEPT ![0] = Quot(Back(eps), deref)]
  /\ n_illcond' = [n_illcond EXCEPT ![0] = f]
  /\ n_cond' = [n_cond EXCEPT ![0] = Ndim(0) - f]
  /\ condition_number' =
       [condition_number EXCEPT ![0] = ConditionNumberInFilter(eps, condition_number[0])]
  /\ printed' = IF Warns(f) THEN Listed(eps, f) ELSE printed
  /\ Goto(0)
  /\ UNCHANGED crashed

\* the filter block of rank 0, the iterator inside eps
FilterFound ==
  /\ Running(0) /\ At(0, "filter")
  /\ FindIf(eps, threshold) < Len(eps)
  /\ Filtered(FindIf(eps, threshold), eps[FindIf(eps, threshold) + 1])
  /\ UNCHANGED <<inputs, callNo, sys_data, tAO_ortho, eps, V, X, ret,
                 X_tmp, eps_tamm, X_alpha, x_tamm, alloc_cols, oob, prev>>

\* the filter block of rank 0 when find_if returns eps.end(): *first_above_thresh
\* reads one past the end of eps, which yields some value
FilterPastEnd ==
  /\ Running(0) /\ At(0, "filter")
  /\ FindIf(eps, threshold) = Len(eps)
  /\ oob' = TRUE
  /\ \E g \in Garbage : Filtered(FindIf(eps, threshold), g)
  /\ UNCHANGED <<inputs, callNo, sys_data, tAO_ortho, eps, V, X, ret,
                 X_tmp, eps_tamm, X_alpha, x_tamm, alloc_cols, prev>>

\* ... or ends the process, and with it the group
FilterCrash ==
  /\ Running(0) /\ At(0, "filter")
  /\ FindIf(eps, threshold) = Len(eps)
  /\ oob' = TRUE
  /\ crashed' = TRUE
  /\ first_above_thresh' = FindIf(eps, threshold)
  /\ UNCHANGED <<inputs, callNo, sys_data, tAO_ortho, pc, log, eps, V, n_illcond, n_cond,
                 condition_number, result_condition_number, X, ret, X_tmp, eps_tamm,
                 X_alpha, x_tamm, alloc_cols, printed, prev>>

\* ec.pg().broadcast(&n_illcond, 0)
Bcast(p) ==
  /\ Running(p) /\ At(p, "bcast") /\ AllArrived(pc[p])
  /\ n_illcond' = [n_illcond EXCEPT ![p] = n_illcond[0]]
  /\ Goto(p)
  /\ UNCHANGED <<inputs, callNo, sys_data, tAO_ortho, eps, V, first_above_thresh, n_cond,
                 condition_number, result_condition_number, X, ret, X_tmp, eps_tamm,
                 X_alpha, x_tamm, alloc_cols, oob, crashed, printed, prev>>

\* n_cond = N - n_illcond; gensqrtinv also stores the rank and sizes tAO_ortho
Ncond(p) ==
  /\ Running(p) /\ At(p, "ncond")
  /\ n_cond' = [n_cond EXCEPT ![p] = Ndim(p) - n_illcond[p]]
  /\ IF IsGensqrtinv(entry)
     THEN /\ sys_data' = [sys_data EXCEPT ![p].n_lindep = n_illcond[p],
                                          ![p].nbf = Ndim(p) - n_illcond[p]]
          /\ tAO_ortho' = [tAO_ortho EXCEPT ![p] = Ndim(p) - n_illcond[p]]
     ELSE UNCHANGED <<sys_data, tAO_ortho>>
  /\ Goto(p)
  /\ UNCHANGED <<inputs, callNo, eps, V, first_above_thresh, n_illcond,
                 condition_number, result_condition_number, X, ret, X_tmp, eps_tamm,
                 X_alpha, x_tamm, alloc_cols, oob, crashed, printed, prev>>

Allocated(t, zero) == IF t.alloc THEN t ELSE [alloc |-> TRUE, data |-> zero]

\* Tensor<T>::allocate(&ec, X_tmp, eps_tamm), both sized by tAO_ortho
Alloc(p) ==
  /\ Running(p) /\ At(p, "alloc") /\ AllArrived(pc[p])
  /\ alloc_cols' = [alloc_cols EXCEPT ![p] = tAO_ortho[p]]
  /\ X_tmp' = Allocated(X_tmp, ZeroMatrix(Ndim(p), tAO_ortho[p]))
  /\ eps_tamm' = Allocated(eps_tamm, ZerosQ(tAO_ortho[p]))
  /\ Goto(p)
  /\ UNCHANGED <<inputs, callNo, sys_data, tAO_ortho, eps, V, first_above_thresh,
                 n_illcond, n_cond, condition_number, result_condition_number, X, ret,
                 X_alpha, x_tamm, oob, crashed, printed, prev>>

\* rank 0: epso = 1/sqrt of the retained eigenvalues, copied into eps_tamm
EpsoStep ==
  /\ Running(0) /\ At(0, "epso")
  /\ eps_tamm' = [alloc |-> TRUE, data |-> Epso(eps, first_above_thresh)]
  /\ Goto(0)
  /\ UNCHANGED <<inputs, callNo, sys_data, tAO_ortho, eps, V, first_above_thresh,
                 n_illcond, n_cond, condition_number, result_condition_number, X, ret,
                 X_tmp, X_alpha, x_tamm, alloc_cols, oob, crashed, printed, prev>>

\* ec.pg().barrier()
Barrier(p) ==
  /\ Running(p)
  /\ At(p, "barrier1") \/ At(p, "barrier2") \/ At(p, "barrier_a")
  /\ AllArrived(pc[p])
  /\ Goto(p)
  /\ UNCHANGED <<inputs, callNo, sys_data, tAO_ortho, eps, V, first_above_thresh,
                 n_illcond, n_cond, condition_number, result_condition_number, X, ret,
                 X_tmp, eps_tamm, X_alpha, x_tamm, alloc_cols, oob, crashed, printed, prev>>

\* ttensors.X_alpha = {tAO, tAO_ortho}; sch.allocate(ttensors.X_alpha).execute()
AllocX(p) ==
  /\ Running(p) /\ At(p, "allocX") /\ AllArrived(pc[p])
  /\ X_alpha' = Allocated(X_alpha, ZeroMatrixQ(Ndim(p), tAO_ortho[p]))
  /\ Goto(p)
  /\ UNCHANGED <<inputs, callNo, sys_data, tAO_ortho, eps, V, first_above_thresh,
                 n_illcond, n_cond, condition_number, result_condition_number, X, ret,
                 X_tmp, eps_tamm, x_tamm, alloc_cols, oob, crashed, printed, prev>>

\* rank 0: X = V.block(...).transpose(); eigen_to_tamm_tensor(X_tmp, X); all resized to 0 x 0
Slice ==
  /\ Running(0) /\ At(0, "slice")
  /\ X_tmp' = [alloc |-> TRUE, data |-> SliceRetained(V, n_illcond[0], Ndim(0))]
  /\ V' = <<>>
  /\ Goto(0)
  /\ UNCHANGED <<inputs, callNo, sys_data, tAO_ortho, eps, first_above_thresh,
                 n_illcond, n_cond, condition_number, result_condition_number, X, ret,
                 eps_tamm, X_alpha, x_tamm, alloc_cols, oob, crashed, printed, prev>>

\* sch(X_comp = X_tmp * eps_tamm).deallocate(X_tmp, eps_tamm).execute(), X_comp
\* being ttensors.X_alpha
Scale(p) ==
  /\ Running(p) /\ At(p, "scale") /\ AllArrived(pc[p])
  /\ IF X_tmp.alloc
     THEN /\ X_alpha' = [alloc |-> TRUE, data |-> ScaleCols(X_tmp.data, eps_tamm.data)]
          /\ X_tmp' = NoTensor
          /\ eps_tamm' = NoTensor
     ELSE UNCHANGED <<X_alpha, X_tmp, eps_tamm>>
  /\ Goto(p)
  /\ UNCHANGED <<inputs, callNo, sys_data, tAO_ortho, eps, V, first_above_thresh,
                 n_illcond, n_cond, condition_number, result_condition_number, X, ret,
                 x_tamm, alloc_cols, oob, crashed, printed, prev>>

\* gensqrtinv_atscf, rank 0: X = V.block(...).transpose()
SliceA ==
  /\ Running(0) /\ At(0, "slice_a")
  /\ X' = [X EXCEPT ![0] = AsQuot(SliceRetained(V, n_illcond[0], Ndim(0)))]
  /\ V' = <<>>
  /\ Goto(0)
  /\ UNCHANGED <<inputs, callNo, sys_data, tAO_ortho, eps, first_above_thresh,
                 n_illcond, n_cond, condition_number, result_condition_number, ret,
                 X_tmp, eps_tamm, X_alpha, x_tamm, alloc_cols, oob, crashed, printed, prev>>

\* gensqrtinv_atscf, rank 0: the column scaling loop
Scal ==
  /\ Running(0) /\ At(0, "scal")
  /\ X' = [X EXCEPT ![0] = ScalLoop(X[0], eps, first_above_thresh, n_cond[0])]
  /\ Goto(0)
  /\ UNCHANGED <<inputs, callNo, sys_data, tAO_ortho, eps, V, first_above_thresh,
                 n_illcond, n_cond, condition_number, result_condition_number, ret,
                 X_tmp, eps_tamm, X_alpha, x_tamm, alloc_cols, oob, crashed, printed, prev>>

\* gensqrtinv_atscf: x_tamm{tao_atom, tAO_atom_ortho} with tAO_atom_ortho of size n_cond
AllocA(p) ==
  /\ Running(p) /\ At(p, "alloc_a") /\ AllArrived(pc[p])
  /\ alloc_cols' = [alloc_cols EXCEPT ![p] = n_cond[p]]
  /\ x_tamm' = Allocated(x_tamm, ZeroMatrixQ(Ndim(p), n_cond[p]))
  /\ Goto(p)
  /\ UNCHANGED <<inputs, callNo, sys_data, tAO_ortho, eps, V, first_above_thresh,
                 n_illcond, n_cond, condition_number, result_condition_number, X, ret,
                 X_tmp, eps_tamm, X_alpha, oob, crashed, printed, prev>>

\* gensqrtinv_atscf, rank 0: eigen_to_tamm_tensor(x_tamm, X)
Put ==
  /\ Running(0) /\ At(0, "put")
  /\ x_tamm' = [alloc |-> TRUE, data |-> X[0]]
  /\ Goto(0)
  /\ UNCHANGED <<inputs, callNo, sys_data, tAO_ortho, eps, V, first_above_thresh,
                 n_illcond, n_cond, condition_number, result_condition_number, X, ret,
                 X_tmp, eps_tamm, X_alpha, alloc_cols, oob, crashed, printed, prev>>

\* gensqrtinv_atscf: X = tamm_to_eigen_matrix(x_tamm)
Get(p) ==
  /\ Running(p) /\ At(p, "get")
  /\ X' = [X EXCEPT ![p] = x_tamm.data]
  /\ Goto(p)
  /\ UNCHANGED <<inputs, callNo, sys_data, tAO_ortho, eps, V, first_above_thresh,
                 n_illcond, n_cond, condition_number, result_condition_number, ret,
                 X_tmp, eps_tamm, X_alpha, x_tamm, alloc_cols, oob, crashed, printed, prev>>

\* gensqrtinv_atscf: sch.deallocate(x_tamm).execute()
Dealloc(p) ==
  /\ Running(p) /\ At(p, "dealloc") /\ AllArrived(pc[p])
  /\ x_tamm' = NoTensor
  /\ Goto(p)
  /\ UNCHANGED <<inputs, callNo, sys_data, tAO_ortho, eps, V, first_above_thresh,
                 n_illcond, n_cond, condition_number, result_condition_number, X, ret,
                 X_tmp, eps_tamm, X_alpha, alloc_cols, oob, crashed, printed, prev>>

\* the two diagnostics in the other order
MakeTupleSwapped(e, x, nc, cn, rcn) ==
  IF IsGensqrtinv(e) THEN <<nc, rcn, cn>> ELSE <<x, nc, rcn, cn>>

\* std::make_tuple(size_t(n_cond), condition_number, result_condition_number), with X
\* in front in gensqrtinv_atscf
MakeTuple(e, x, nc, cn, rcn) ==
  IF IsGensqrtinv(e) THEN <<nc, cn, rcn>> ELSE <<x, nc, cn, rcn>>

\* return std::make_tuple(...)
Ret(p) ==
  /\ Running(p) /\ At(p, "ret")
  /\ ret' = [ret EXCEPT ![p] = MakeTuple(entry, X[p], n_cond[p], condition_number[p],
                                         result_condition_number[p])]
  /\ Goto(p)
  /\ UNCHANGED <<inputs, callNo, sys_data, tAO_ortho, eps, V, first_above_thresh,
                 n_illcond, n_cond, condition_number, result_condition_number, X,
                 X_tmp, eps_tamm, X_alpha, x_tamm, alloc_cols, oob, crashed, printed, prev>>

\* the transform process p holds when the call has returned
Transform(p) == IF IsGensqrtinv(entry) THEN X_alpha.data ELSE X[p]

\* the caller runs its next entry point, on the same matrix and threshold
NextCall ==
  /\ ~crashed
  /\ \A p \in Ranks : Done(p)
  /\ callNo < Len(entries)
  /\ prev' = [valid |-> TRUE, entry |-> entry, n_illcond |-> n_illcond, n_cond |-> n_cond,
              condition_number |-> condition_number,
              result_condition_number |-> result_condition_number,
              transform |-> [p \in Ranks |-> Transform(p)]]
  /\ callNo' = callNo + 1
  /\ pc' = [p \in Ranks |-> NextPc(entries[callNo + 1], p, world_size, 1)]
  /\ log' = [p \in Ranks |-> <<>>]
  /\ eps' = Zeros(IF entries[callNo + 1] = "gensqrtinv" THEN sys_data[0].nbf_orig ELSE tao_atom)
  /\ V' = <<>>
  /\ first_above_thresh' = NoIter
  /\ n_illcond' = [p \in Ranks |-> 0]
  /\ n_cond' = [p \in Ranks |-> 0]
  /\ condition_number' = [p \in Ranks |-> Zero]
  /\ result_condition_number' = [p \in Ranks |-> Zero]
  /\ X' = [p \in Ranks |-> <<>>]
  /\ ret' = [p \in Ranks |-> <<>>]
  /\ X_tmp' = NoTensor
  /\ eps_tamm' = NoTensor
  /\ X_alpha' = NoTensor
  /\ x_tamm' = NoTensor
  /\ alloc_cols' = [p \in Ranks |-> -1]
  /\ printed' = <<>>
  /\ UNCHANGED <<entries, world_size, Sevals, threshold, tao_atom, sys_data, tAO_ortho,
                 oob, crashed>>

\* ------------------------------------------------------------------ USE_SCALAPACK
\* everything of gensqrtinv's state but pc and log
orthoData == <<inputs, callNo, sys_data, tAO_ortho, eps, V, first_above_thresh, n_illcond,
               n_cond, condition_number, result_condition_number, X, ret, X_tmp, eps_tamm,
               X_alpha, x_tamm, alloc_cols, oob, crashed, printed, prev>>

\* a collective of scalapack_info.ec returns once every process of that group called it
AllArrivedPg(k) == \A q \in Ranks : in_pg[q] => pc[q] >= k

AllArrivedGrid(k) == \A q \in Ranks : in_grid[q] => pc[q] >= k

\* Tensor<T>::allocate(&scalapack_info.ec, S_BC, V_sca); to_block_cyclic_tensor(S1, S_BC)
AllocBc(p) ==
  /\ Running(p) /\ At(p, "alloc_bc") /\ AllArrivedPg(pc[p])
  /\ S_BC' = Allocated(S_BC, <<>>)
  /\ V_sca' = Allocated(V_sca, ZeroMatrix(Ndim(p), Ndim(p)))
  /\ Goto(p)
  /\ UNCHANGED <<orthoData, use_elpa, in_pg, in_grid, V_t, X_t, X_comp, solver_failed,
                 terminated>>

\* the eigensolver returns on a grid member: eps and the local part of V_sca are
\* written. hereig's info is not looked at, so the call goes on when it reports an
\* error (eps then holds what the solver left); with ELPA an error does not get here
EigBc(p) ==
  /\ Running(p) /\ At(p, "eig_bc") /\ AllArrivedGrid(pc[p])
  /\ \E ok \in BOOLEAN :
       /\ use_elpa => ok
       /\ solver_failed' = (solver_failed \/ ~ok)
  /\ eps' = IF p = 0 THEN Sevals ELSE eps
  /\ V_sca' = [alloc |-> TRUE, data |-> EigenVectors(Ndim(p))]
  /\ Goto(p)
  /\ UNCHANGED <<inputs, callNo, sys_data, tAO_ortho, V, first_above_thresh, n_illcond,
                 n_cond, condition_number, result_condition_number, X, ret, X_tmp,
                 eps_tamm, X_alpha, x_tamm, alloc_cols, oob, crashed, printed, prev>>
  /\ UNCHANGED <<use_elpa, in_pg, in_grid, S_BC, V_t, X_t, X_comp, terminated>>

\* ELPA reports an error (elpa_init, elpa_allocate, elpa_setup, elpa_eigenvectors,
\* elpa_deallocate): tamm_terminate
ElpaFail(p) ==
  /\ Running(p) /\ At(p, "eig_bc")
  /\ use_elpa
  /\ solver_failed' = TRUE
  /\ terminated' = TRUE
  /\ UNCHANGED <<orthoData, pc, log, use_elpa, in_pg, in_grid, S_BC, V_sca, V_t, X_t, X_comp>>

\* Tensor<T>::deallocate(S_BC)
DeallocS(p) ==
  /\ Running(p) /\ At(p, "dealloc_S") /\ AllArrivedPg(pc[p])
  /\ S_BC' = NoTensor
  /\ Goto(p)
  /\ UNCHANGED <<orthoData, use_elpa, in_pg, in_grid, V_sca, V_t, X_t, X_comp,
                 solver_failed, terminated>>

\* ttensors.X_alpha = {tN_bc, tNortho_bc}; Tensor::allocate(&scalapack_info.ec, X_alpha)
AllocXBc(p) ==
  /\ Running(p) /\ At(p, "allocX_bc") /\ AllArrivedPg(pc[p])
  /\ X_alpha' = Allocated(X_alpha, ZeroMatrixQ(Ndim(p), sys_data[p].nbf))
  /\ Goto(p)
  /\ UNCHANGED <<inputs, callNo, sys_data, tAO_ortho, eps, V, first_above_thresh,
                 n_illcond, n_cond, condition_number, result_condition_number, X, ret,
                 X_tmp, eps_tamm, x_tamm, alloc_cols, oob, crashed, printed, prev>>
  /\ UNCHANGED distVars

\* V_t = from_block_cyclic_tensor(V_sca); X_t = tensor_block(V_t, {n_illcond, 0},
\* {N, N}, {1, 0}); from_dense_tensor(X_t, X_tmp)
SliceBc(p) ==
  /\ Running(p) /\ At(p, "slice_bc") /\ AllArrivedPg(pc[p])
  /\ V_t' = [alloc |-> TRUE, data |-> V_sca.data]
  /\ X_t' = [alloc |-> TRUE, data |-> SliceRetained(V_sca.data, n_illcond[p], Ndim(p))]
  /\ X_tmp' = [alloc |-> TRUE, data |-> SliceRetained(V_sca.data, n_illcond[p], Ndim(p))]
  /\ Goto(p)
  /\ UNCHANGED <<inputs, callNo, sys_data, tAO_ortho, eps, V, first_above_thresh,
                 n_illcond, n_cond, condition_number, result_condition_number, X, ret,
                 eps_tamm, X_alpha, x_tamm, alloc_cols, oob, crashed, printed, prev>>
  /\ UNCHANGED <<use_elpa, in_pg, in_grid, S_BC, V_sca, X_comp, solver_failed, terminated>>

\* Tensor<T>::deallocate(V_sca, V_t, X_t)
DeallocV(p) ==
  /\ Running(p) /\ At(p, "dealloc_V") /\ AllArrivedPg(pc[p])
  /\ V_sca' = NoTensor
  /\ V_t' = NoTensor
  /\ X_t' = NoTensor
  /\ Goto(p)
  /\ UNCHANGED <<orthoData, use_elpa, in_pg, in_grid, S_BC, X_comp, solver_failed,
                 terminated>>

\* sch.allocate(X_comp).execute()
AllocComp(p) ==
  /\ Running(p) /\ At(p, "alloc_comp") /\ AllArrived(pc[p])
  /\ X_comp' = Allocated(X_comp, ZeroMatrixQ(Ndim(p), tAO_ortho[p]))
  /\ Goto(p)
  /\ UNCHANGED <<orthoData, use_elpa, in_pg, in_grid, S_BC, V_sca, V_t, X_t,
                 solver_failed, terminated>>

\* sch(X_comp = X_tmp * eps_tamm).deallocate(X_tmp, eps_tamm).execute()
ScaleBc(p) ==
  /\ Running(p) /\ At(p, "scale_bc") /\ AllArrived(pc[p])
  /\ IF X_tmp.alloc
     THEN /\ X_comp' = [alloc |-> TRUE, data |-> ScaleCols(X_tmp.data, eps_tamm.data)]
          /\ X_tmp' = NoTensor
          /\ eps_tamm' = NoTensor
     ELSE UNCHANGED <<X_comp, X_tmp, eps_tamm>>
  /\ Goto(p)
  /\ UNCHANGED <<inputs, callNo, sys_data, tAO_ortho, eps, V, first_above_thresh,
                 n_illcond, n_cond, condition_number, result_condition_number, X, ret,
                 X_alpha, x_tamm, alloc_cols, oob, crashed, printed, prev>>
  /\ UNCHANGED <<use_elpa, in_pg, in_grid, S_BC, V_sca, V_t, X_t, solver_failed, terminated>>

\* tamm::to_block_cyclic_tensor(X_comp, ttensors.X_alpha)
ToBcX(p) ==
  /\ Running(p) /\ At(p, "to_bc_X")
  /\ X_alpha' = [alloc |-> TRUE, data |-> X_comp.data]
  /\ Goto(p)
  /\ UNCHANGED <<inputs, callNo, sys_data, tAO_ortho, eps, V, first_above_thresh,
                 n_illcond, n_cond, condition_number, result_condition_number, X, ret,
                 X_tmp, eps_tamm, x_tamm, alloc_cols, oob, crashed, printed, prev>>
  /\ UNCHANGED distVars

\* sch.deallocate(X_comp).execute()
DeallocComp(p) ==
  /\ Running(p) /\ At(p, "dealloc_comp") /\ AllArrived(pc[p])
  /\ X_comp' = NoTensor
  /\ Goto(p)
  /\ UNCHANGED <<orthoData, use_elpa, in_pg, in_grid, S_BC, V_sca, V_t, X_t,
                 solver_failed, terminated>>

\* ------------------------------------------------------------------ gather_task_vectors
GRanks == 0 .. (nranks - 1)

GatherSteps ==
  <<"gather_s1", "gather_s2", "gather_nt", "gatherv_s1", "gatherv_s2", "gatherv_nt",
    "finish">>

GCollectives == {"gather_s1", "gather_s2", "gather_nt", "gatherv_s1", "gatherv_s2", "gatherv_nt"}

\* a rank other than 0 that leaves out the gatherv of a vector it holds nothing of
GSkippedWhenEmpty(rank, step, l1, l2, l3) ==
  /\ rank # 0
  /\ \/ step = "gatherv_s1" /\ l1 = 0
     \/ step = "gatherv_s2" /\ l2 = 0
     \/ step = "gatherv_nt" /\ l3 = 0

\* no rank leaves out a step of gather_task_vectors, whatever its vectors hold
GSkipped(rank, step, l1, l2, l3) == FALSE

GStepAt(k) == IF k \in 1 .. Len(GatherSteps) THEN GatherSteps[k] ELSE "returned"

GIndexOf(step) == CHOOSE k \in 1 .. Len(GatherSteps) : GatherSteps[k] = step

RECURSIVE GNextPc(_, _, _, _, _)
GNextPc(rank, k, l1, l2, l3) ==
  IF k > Len(GatherSteps) THEN k
  ELSE IF GSkipped(rank, GatherSteps[k], l1, l2, l3) THEN GNextPc(rank, k + 1, l1, l2, l3)
  ELSE k

GAt(r, step) == r \in GRanks /\ ~aborted /\ gpc[r] <= Len(GatherSteps) /\ GStepAt(gpc[r]) = step

GGoto(r) ==
  /\ gpc' = [gpc EXCEPT ![r] = GNextPc(r, gpc[r] + 1, Len(s1vec[r]), Len(s2vec[r]),
                                       Len(ntask_vec[r]))]
  /\ gcalls' = [gcalls EXCEPT ![r] = IF GStepAt(gpc[r]) \in GCollectives
                                     THEN Append(@, GStepAt(gpc[r])) ELSE @]

\* the i-th collective a rank calls is matched with the i-th of every other rank
GCallsBefore(r) == Cardinality({k \in 1 .. (gpc[r] - 1) : GatherSteps[k] \in GCollectives})

\* a collective returns at rank r once every rank has made the matching call
GAllArrived(r) ==
  \A q \in GRanks :
    \/ GCallsBefore(q) > GCallsBefore(r)
    \/ /\ GCallsBefore(q) = GCallsBefore(r)
       /\ gpc[q] <= Len(GatherSteps)
       /\ GStepAt(gpc[q]) = GStepAt(gpc[r])

\* element j (from 1) of vector number w of rank r
Elem(w, r, j) == 100 * w + 10 * r + j

LocalVec(w, r, n) == [j \in 1 .. n |-> Elem(w, r, j)]

\* MPI gather of one int per rank: the root's receive buffer, in rank order
Gathered(vecs) == [i \in 1 .. nranks |-> Len(vecs[i - 1])]

\* a displacement that adds the rank's own count: disps[i - 1] + count[i]
RECURSIVE DispAtInclusive(_, _)
DispAtInclusive(count, i) == IF i > 1 THEN DispAtInclusive(count, i - 1) + count[i] ELSE 0

\* disps[i] = (i > 0) ? (disps[i - 1] + count[i - 1]) : 0
RECURSIVE DispAt(_, _)
DispAt(count, i) == IF i > 1 THEN DispAt(count, i - 1) + count[i - 1] ELSE 0

Disps(count) == [i \in 1 .. Len(count) |-> DispAt(count, i)]

\* disps[nranks - 1] + count[nranks - 1]
TotalSize(disps, count) == disps[Len(disps)] + count[Len(count)]

\* MPI gatherv at the root: rank i's count[i] elements land at offset disps[i]
Gatherv(buf, vecs, count, disps) ==
  [i \in 1 .. Len(buf) |->
     IF \E q \in GRanks : i - disps[q + 1] \in 1 .. count[q + 1]
     THEN LET q == CHOOSE q \in GRanks : i - disps[q + 1] \in 1 .. count[q + 1]
          IN  vecs[q][i - disps[q + 1]]
     ELSE buf[i]]

\* the first EXPECTS alone
ExpectsFirstOnly(a, b, c) == Len(a) = Len(b)

\* EXPECTS(s1_all.size() == s2_all.size()); EXPECTS(s1_all.size() == ntasks_all.size())
ExpectsHold(a, b, c) == Len(a) = Len(b) /\ Len(a) = Len(c)

RECURSIVE SumUpTo(_, _)
SumUpTo(l, r) == IF r < 0 THEN 0 ELSE SumUpTo(l, r - 1) + l[r]

\* the lengths the ranks bring: any s1 lengths, MaxTasks elements in all at most;
\* s2 and ntasks as long as s1, but for at most one vector of one rank, which is one
\* element longer or shorter
LenChoices(n) ==
  {<<l, slip>> \in [0 .. (n - 1) -> 0 .. MaxTasks] \X
                   ({<<0, 0, 0>>} \cup ((0 .. (n - 1)) \X {2, 3} \X {-1, 1})) :
     /\ SumUpTo(l, n - 1) <= MaxTasks
     /\ slip[2] # 0 => l[slip[1]] + slip[3] >= 0}

LenOf(w, r, ls) ==
  IF ls[2][2] = w /\ ls[2][1] = r THEN ls[1][r] + ls[2][3] ELSE ls[1][r]

InitGather ==
  /\ nranks \in 1 .. MaxRanks
  /\ \E ls \in LenChoices(nranks) :
       /\ s1vec = [r \in GRanks |-> LocalVec(1, r, ls[1][r])]
       /\ s2vec = [r \in GRanks |-> LocalVec(2, r, LenOf(2, r, ls))]
       /\ ntask_vec = [r \in GRanks |-> LocalVec(3, r, LenOf(3, r, ls))]
       /\ gpc = [r \in GRanks |->
                   GNextPc(r, 1, ls[1][r], LenOf(2, r, ls), LenOf(3, r, ls))]
  /\ s1_count = [r \in GRanks |-> Zeros(nranks)]
  /\ s2_count = [r \in GRanks |-> Zeros(nranks)]
  /\ nt_count = [r \in GRanks |-> Zeros(nranks)]
  /\ disps_s1 = [r \in GRanks |-> <<>>]
  /\ disps_s2 = [r \in GRanks |-> <<>>]
  /\ disps_nt = [r \in GRanks |-> <<>>]
  /\ s1_all = [r \in GRanks |-> <<>>]
  /\ s2_all = [r \in GRanks |-> <<>>]
  /\ ntasks_all = [r \in GRanks |-> <<>>]
  /\ gret = [r \in GRanks |-> <<>>]
  /\ gcalls = [r \in GRanks |-> <<>>]
  /\ aborted = FALSE

ginputs == <<nranks, s1vec, s2vec, ntask_vec>>

\* ec.pg().gather(&s1vec_size, s1_count.data(), 0)
GatherS1(r) ==
  /\ GAt(r, "gather_s1") /\ GAllArrived(r)
  /\ s1_count' = IF r = 0 THEN [s1_count EXCEPT ![0] = Gathered(s1vec)] ELSE s1_count
  /\ GGoto(r)
  /\ UNCHANGED <<ginputs, s2_count, nt_count, disps_s1, disps_s2, disps_nt, s1_all,
                 s2_all, ntasks_all, gret, aborted>>

\* ec.pg().gather(&s2vec_size, s2_count.data(), 0)
GatherS2(r) ==
  /\ GAt(r, "gather_s2") /\ GAllArrived(r)
  /\ s2_count' = IF r = 0 THEN [s2_count EXCEPT ![0] = Gathered(s2vec)] ELSE s2_count
  /\ GGoto(r)
  /\ UNCHANGED <<ginputs, s1_count, nt_count, disps_s1, disps_s2, disps_nt, s1_all,
                 s2_all, ntasks_all, gret, aborted>>

\* ec.pg().gather(&ntvec_size, nt_count.data(), 0), then up to the next
\* collective: the displacement loop and, on rank 0, the three resize calls
GatherNt(r) ==
  /\ GAt(r, "gather_nt") /\ GAllArrived(r)
  /\ nt_count' = IF r = 0 THEN [nt_count EXCEPT ![0] = Gathered(ntask_vec)] ELSE nt_count
  /\ disps_s1' = [disps_s1 EXCEPT ![r] = Disps(s1_count[r])]
  /\ disps_s2' = [disps_s2 EXCEPT ![r] = Disps(s2_count[r])]
  /\ disps_nt' = [disps_nt EXCEPT ![r] = Disps(nt_count'[r])]
  /\ IF r = 0
     THEN /\ s1_all' = [s1_all EXCEPT ![0] = Zeros(TotalSize(disps_s1'[0], s1_count[0]))]
          /\ s2_all' = [s2_all EXCEPT ![0] = Zeros(TotalSize(disps_s2'[0], s2_count[0]))]
          /\ ntasks_all' = [ntasks_all EXCEPT ![0] = Zeros(TotalSize(disps_nt'[0], nt_count'[0]))]
     ELSE UNCHANGED <<s1_all, s2_all, ntasks_all>>
  /\ GGoto(r)
  /\ UNCHANGED <<ginputs, s1_count, s2_count, gret, aborted>>

\* ec.pg().gatherv(s1vec.data(), s1vec_size, s1_all.data(), s1_count.data(), disps_s1.data(), 0)
GathervS1(r) ==
  /\ GAt(r, "gatherv_s1") /\ GAllArrived(r)
  /\ s1_all' = IF r = 0
               THEN [s1_all EXCEPT ![0] = Gatherv(s1_all[0], s1vec, s1_count[0], disps_s1[0])]
               ELSE s1_all
  /\ GGoto(r)
  /\ UNCHANGED <<ginputs, s1_count, s2_count, nt_count, disps_s1, disps_s2, disps_nt,
                 s2_all, ntasks_all, gret, aborted>>

\* ec.pg().gatherv(s2vec.data(), s2vec_size, s2_all.data(), s2_count.data(), disps_s2.data(), 0)
GathervS2(r) ==
  /\ GAt(r, "gatherv_s2") /\ GAllArrived(r)
  /\ s2_all' = IF r = 0
               THEN [s2_all EXCEPT ![0] = Gatherv(s2_all[0], s2vec, s2_count[0], disps_s2[0])]
               ELSE s2_all
  /\ GGoto(r)
  /\ UNCHANGED <<ginputs, s1_count, s2_count, nt_count, disps_s1, disps_s2, disps_nt,
                 s1_all, ntasks_all, gret, aborted>>

\* ec.pg().gatherv(ntask_vec.data(), ntvec_size, ntasks_all.data(), nt_count.data(), ...)
GathervNt(r) ==
  /\ GAt(r, "gatherv_nt") /\ GAllArrived(r)
  /\ ntasks_all' =
       IF r = 0
       THEN [ntasks_all EXCEPT ![0] = Gatherv(ntasks_all[0], ntask_vec, nt_count[0], disps_nt[0])]
       ELSE ntasks_all
  /\ GGoto(r)
  /\ UNCHANGED <<ginputs, s1_count, s2_count, nt_count, disps_s1, disps_s2, disps_nt,
                 s1_all, s2_all, gret, aborted>>

\* the two EXPECTS hold: return std::make_tuple(s1_all, s2_all, ntasks_all)
Finish(r) ==
  /\ GAt(r, "finish")
  /\ ExpectsHold(s1_all[r], s2_all[r], ntasks_all[r])
  /\ gret' = [gret EXCEPT ![r] = <<s1_all[r], s2_all[r], ntasks_all[r]>>]
  /\ GGoto(r)
  /\ UNCHANGED <<ginputs, s1_count, s2_count, nt_count, disps_s1, disps_s2, disps_nt,
                 s1_all, s2_all, ntasks_all, aborted>>

\* an EXPECTS fails: the run is terminated
ExpectsFail(r) ==
  /\ GAt(r, "finish")
  /\ ~ExpectsHold(s1_all[r], s2_all[r], ntasks_all[r])
  /\ aborted' = TRUE
  /\ UNCHANGED <<ginputs, gpc, gcalls, s1_count, s2_count, nt_count, disps_s1, disps_s2,
                 disps_nt, s1_all, s2_all, ntasks_all, gret>>

GProc(r) ==
  \/ GatherS1(r) \/ GatherS2(r) \/ GatherNt(r)
  \/ GathervS1(r) \/ GathervS2(r) \/ GathervNt(r)
  \/ Finish(r) \/ ExpectsFail(r)

\* ------------------------------------------------------------------ gather idle
GatherIdle ==
  /\ nranks = 0
  /\ s1vec = <<>> /\ s2vec = <<>> /\ ntask_vec = <<>>
  /\ gpc = <<>>
  /\ s1_count = <<>> /\ s2_count = <<>> /\ nt_count = <<>>
  /\ disps_s1 = <<>> /\ disps_s2 = <<>> /\ disps_nt = <<>>
  /\ s1_all = <<>> /\ s2_all = <<>> /\ ntasks_all = <<>>
  /\ gret = <<>>
  /\ gcalls = <<>>
  /\ aborted = FALSE

\* no USE_SCALAPACK build running
DistIdle ==
  /\ use_elpa = FALSE
  /\ in_pg = <<>>
  /\ in_grid = <<>>
  /\ S_BC = NoTensor /\ V_sca = NoTensor /\ V_t = NoTensor /\ X_t = NoTensor
  /\ X_comp = NoTensor
  /\ solver_failed = FALSE
  /\ terminated = FALSE

Init == InitOrtho(1) /\ GatherIdle /\ DistIdle

InitTwice == InitOrtho(2) /\ GatherIdle /\ DistIdle

Next ==
  \/ Eig /\ UNCHANGED restVars
  \/ FilterFound /\ UNCHANGED restVars
  \/ FilterPastEnd /\ UNCHANGED restVars
  \/ FilterCrash /\ UNCHANGED restVars
  \/ \E p \in Ranks : Bcast(p) /\ UNCHANGED restVars
  \/ \E p \in Ranks : Ncond(p) /\ UNCHANGED restVars
  \/ \E p \in Ranks : Alloc(p) /\ UNCHANGED restVars
  \/ EpsoStep /\ UNCHANGED restVars
  \/ \E p \in Ranks : Barrier(p) /\ UNCHANGED restVars
  \/ \E p \in Ranks : AllocX(p) /\ UNCHANGED restVars
  \/ Slice /\ UNCHANGED restVars
  \/ \E p \in Ranks : Scale(p) /\ UNCHANGED restVars
  \/ SliceA /\ UNCHANGED restVars
  \/ Scal /\ UNCHANGED restVars
  \/ \E p \in Ranks : AllocA(p) /\ UNCHANGED restVars
  \/ Put /\ UNCHANGED restVars
  \/ \E p \in Ranks : Get(p) /\ UNCHANGED restVars
  \/ \E p \in Ranks : Dealloc(p) /\ UNCHANGED restVars
  \/ \E p \in Ranks : Ret(p) /\ UNCHANGED restVars

NextTwice == Next \/ (NextCall /\ UNCHANGED restVars)

Spec == Init /\ [][Next]_vars

\* the processes keep running: while some process has a step to take, a step is taken
FairSpec == Spec /\ WF_vars(Next)

\* one process alone: world_size = 1, no broadcast
InitSerial == InitWith(1, {1}, SerialSpectra, SerialThresholds) /\ GatherIdle /\ DistIdle

NextSerial ==
  \/ Eig /\ UNCHANGED restVars
  \/ FilterFound /\ UNCHANGED restVars
  \/ FilterPastEnd /\ UNCHANGED restVars
  \/ FilterCrash /\ UNCHANGED restVars
  \/ Ncond(0) /\ UNCHANGED restVars
  \/ Alloc(0) /\ UNCHANGED restVars
  \/ EpsoStep /\ UNCHANGED restVars
  \/ Barrier(0) /\ UNCHANGED restVars
  \/ AllocX(0) /\ UNCHANGED restVars
  \/ Slice /\ UNCHANGED restVars
  \/ Scale(0) /\ UNCHANGED restVars
  \/ SliceA /\ UNCHANGED restVars
  \/ Scal /\ UNCHANGED restVars
  \/ AllocA(0) /\ UNCHANGED restVars
  \/ Put /\ UNCHANGED restVars
  \/ Get(0) /\ UNCHANGED restVars
  \/ Dealloc(0) /\ UNCHANGED restVars
  \/ Ret(0) /\ UNCHANGED restVars

SpecSerial == InitSerial /\ [][NextSerial]_vars

SpecTwice == InitTwice /\ [][NextTwice]_vars

\* ------------------------------------------------------------------ one call, USE_SCALAPACK
InitSca ==
  /\ entries = <<"gensqrtinv_sca">>
  /\ callNo = 1
  /\ world_size \in 1 .. MaxProcs
  /\ Sevals \in Spectra
  /\ threshold \in Thresholds
  /\ tao_atom = Len(Sevals)
  /\ sys_data = [p \in 0 .. (world_size - 1) |->
                   [nbf_orig |-> Len(Sevals), nbf |-> Len(Sevals), n_lindep |-> 0]]
  /\ tAO_ortho = [p \in 0 .. (world_size - 1) |-> Len(Sevals)]
  /\ use_elpa \in BOOLEAN
  /\ in_pg \in [0 .. (world_size - 1) -> BOOLEAN]
  /\ in_grid \in {g \in [0 .. (world_size - 1) -> BOOLEAN] :
                    \A p \in 0 .. (world_size - 1) : g[p] => in_pg[p]}
  /\ pc = [p \in 0 .. (world_size - 1) |-> NextPc("gensqrtinv_sca", p, world_size, 1)]
  /\ FreshLocals(world_size, Len(Sevals))
  /\ oob = FALSE
  /\ crashed = FALSE
  /\ prev = NoPrev
  /\ S_BC = NoTensor /\ V_sca = NoTensor /\ V_t = NoTensor /\ X_t = NoTensor
  /\ X_comp = NoTensor
  /\ solver_failed = FALSE
  /\ terminated = FALSE
  /\ GatherIdle

NextSca ==
  \/ \E p \in Ranks : AllocBc(p) /\ UNCHANGED gatherVars
  \/ \E p \in Ranks : EigBc(p) /\ UNCHANGED gatherVars
  \/ \E p \in Ranks : ElpaFail(p) /\ UNCHANGED gatherVars
  \/ \E p \in Ranks : DeallocS(p) /\ UNCHANGED gatherVars
  \/ FilterFound /\ UNCHANGED restVars
  \/ FilterPastEnd /\ UNCHANGED restVars
  \/ FilterCrash /\ UNCHANGED restVars
  \/ \E p \in Ranks : Bcast(p) /\ UNCHANGED restVars
  \/ \E p \in Ranks : Ncond(p) /\ UNCHANGED restVars
  \/ \E p \in Ranks : Alloc(p) /\ UNCHANGED restVars
  \/ EpsoStep /\ UNCHANGED restVars
  \/ \E p \in Ranks : Barrier(p) /\ UNCHANGED restVars
  \/ \E p \in Ranks : AllocXBc(p) /\ UNCHANGED gatherVars
  \/ \E p \in Ranks : SliceBc(p) /\ UNCHANGED gatherVars
  \/ \E p \in Ranks : DeallocV(p) /\ UNCHANGED gatherVars
  \/ \E p \in Ranks : AllocComp(p) /\ UNCHANGED gatherVars
  \/ \E p \in Ranks : ScaleBc(p) /\ UNCHANGED gatherVars
  \/ \E p \in Ranks : ToBcX(p) /\ UNCHANGED gatherVars
  \/ \E p \in Ranks : DeallocComp(p) /\ UNCHANGED gatherVars
  \/ \E p \in Ranks : Ret(p) /\ UNCHANGED restVars

SpecSca == InitSca /\ [][NextSca]_vars

OrthoIdle ==
  /\ entries = <<"gensqrtinv">>
  /\ callNo = 1
  /\ world_size = 0
  /\ Sevals = <<>>
  /\ threshold = 0
  /\ tao_atom = 0
  /\ sys_data = <<>>
  /\ tAO_ortho = <<>>
  /\ pc = <<>>
  /\ FreshLocals(0, 0)
  /\ oob = FALSE
  /\ crashed = FALSE
  /\ prev = NoPrev

InitG == InitGather /\ OrthoIdle /\ DistIdle

NextG ==
  \/ \E r \in GRanks : GatherS1(r) /\ UNCHANGED <<orthoVars, distVars>>
  \/ \E r \in GRanks : GatherS2(r) /\ UNCHANGED <<orthoVars, distVars>>
  \/ \E r \in GRanks : GatherNt(r) /\ UNCHANGED <<orthoVars, distVars>>
  \/ \E r \in GRanks : GathervS1(r) /\ UNCHANGED <<orthoVars, distVars>>
  \/ \E r \in GRanks : GathervS2(r) /\ UNCHANGED <<orthoVars, distVars>>
  \/ \E r \in GRanks : GathervNt(r) /\ UNCHANGED <<orthoVars, distVars>>
  \/ \E r \in GRanks : Finish(r) /\ UNCHANGED <<orthoVars, distVars>>
  \/ \E r \in GRanks : ExpectsFail(r) /\ UNCHANGED <<orthoVars, distVars>>

SpecGather == InitG /\ [][NextG]_vars

\* the processes keep running: while some rank has a step to take, a step is taken
FairSpecGather == SpecGather /\ WF_vars(NextG)

\* ------------------------------------------------------------------ claims
NBelow == Cardinality({i \in 1 .. Len(Sevals) : Sevals[i] < threshold})

SomeRetained == \E i \in 1 .. Len(Sevals) : Sevals[i] >= threshold

AllBelow == \A i \in 1 .. Len(Sevals) : Sevals[i] < threshold

\* C1: once a process is past the broadcast step it holds the n_illcond that rank 0
\* computed in its filter; once it is past n_cond = N - n_illcond it holds rank 0's
\* n_cond; and the column count it sizes the transform with is that n_cond.
C1_RankAgreed ==
  \A p \in Ranks :
    /\ Past(p, "bcast") => n_illcond[p] = first_above_thresh /\ n_illcond[p] = n_illcond[0]
    /\ Past(p, "ncond") => /\ n_cond[p] = Len(Sevals) - first_above_thresh
                           /\ n_cond[p] = n_cond[0]
    /\ alloc_cols[p] # -1 => alloc_cols[p] = Len(Sevals) - first_above_thresh

C1_Witness ==
  /\ world_size >= 2
  /\ ~oob
  /\ first_above_thresh >= 1
  /\ \A p \in Ranks : Done(p) /\ alloc_cols[p] = n_cond[0] /\ n_illcond[p] = first_above_thresh

\* C2: when some eigenvalue is >= threshold, the filter's n_illcond is the index of
\* the first eigenvalue >= threshold (one equal to threshold is retained), which is the
\* number of eigenvalues < threshold, and n_cond = N - n_illcond; with every eigenvalue
\* >= threshold, n_illcond = 0 and n_cond = N.
C2_FilterCut ==
  (Past(0, "filter") /\ SomeRetained) =>
     /\ n_illcond[0] = NBelow
     /\ Sevals[n_illcond[0] + 1] >= threshold
     /\ \A j \in 1 .. n_illcond[0] : Sevals[j] < threshold
     /\ n_cond[0] = Len(Sevals) - NBelow
     /\ (\A i \in 1 .. Len(Sevals) : Sevals[i] >= threshold) =>
           n_illcond[0] = 0 /\ n_cond[0] = Len(Sevals)

C2_Witness ==
  /\ Past(0, "filter")
  /\ n_illcond[0] >= 1
  /\ n_cond[0] >= 2
  /\ Sevals[n_illcond[0] + 1] = threshold

\* C3 as claimed: for every threshold >= the largest eigenvalue the filter yields
\* n_cond = 0.
C3_Original == (Past(0, "filter") /\ threshold >= Back(Sevals)) => n_cond[0] = 0

\* C3 as amended: for every threshold > the largest eigenvalue no eigenvalue is
\* retained, first_above_thresh is eps.end() and the n_illcond and n_cond computed from
\* it are N and 0; a threshold equal to the largest eigenvalue retains it, n_cond >= 1.
C3_AboveLargest ==
  /\ (first_above_thresh # NoIter /\ threshold > Back(Sevals)) =>
        first_above_thresh = Len(Sevals)
  /\ \A p \in Ranks :
       (Past(p, "ncond") \/ (p = 0 /\ Past(0, "filter"))) =>
          /\ threshold > Back(Sevals) => n_illcond[p] = Len(Sevals) /\ n_cond[p] = 0
          /\ threshold = Back(Sevals) => n_cond[p] >= 1

C3_Witness ==
  /\ threshold > Back(Sevals)
  /\ Len(Sevals) >= 2
  /\ \A p \in Ranks : Done(p) /\ n_cond[p] = 0

\* C4: when every eigenvalue is below threshold the call reads nothing outside eps,
\* does not crash, and every process that returns has n_illcond = N, n_cond = 0 and a
\* transform of zero columns.
C4_DegenerateSafe ==
  AllBelow =>
     /\ ~oob
     /\ ~crashed
     /\ \A p \in Ranks :
          Done(p) => /\ n_illcond[p] = Len(Sevals)
                     /\ n_cond[p] = 0
                     /\ \A r \in 1 .. Len(Sevals) : Len(Transform(p)[r]) = 0

\* the local vectors of ranks 0 .. r, one after the other
RECURSIVE ConcatUpTo(_, _)
ConcatUpTo(vecs, r) == IF r < 0 THEN <<>> ELSE ConcatUpTo(vecs, r - 1) \o vecs[r]

RECURSIVE SumLenUpTo(_, _)
SumLenUpTo(vecs, r) == IF r < 0 THEN 0 ELSE SumLenUpTo(vecs, r - 1) + Len(vecs[r])

GPast(r, step) == gpc[r] > GIndexOf(step)

\* the global vector all is the local vectors vecs in rank order: its length is the
\* sum of theirs, and rank r's elements, in their local order, start at the sum of the
\* lengths of ranks 0 .. r-1
IsRankOrderConcat(all, vecs) ==
  /\ Len(all) = SumLenUpTo(vecs, nranks - 1)
  /\ all = ConcatUpTo(vecs, nranks - 1)
  /\ \A r \in GRanks : \A j \in 1 .. Len(vecs[r]) :
       all[SumLenUpTo(vecs, r - 1) + j] = vecs[r][j]

\* C5: once rank 0 has left a gatherv, its global vector has the summed length of the
\* local vectors and is their concatenation in ascending rank order, each rank's
\* elements in local order, rank r's segment starting at the exclusive prefix sum.
C5_GatherConcat ==
  /\ GPast(0, "gatherv_s1") => IsRankOrderConcat(s1_all[0], s1vec)
  /\ GPast(0, "gatherv_s2") => IsRankOrderConcat(s2_all[0], s2vec)
  /\ GPast(0, "gatherv_nt") => IsRankOrderConcat(ntasks_all[0], ntask_vec)

C5_Witness ==
  /\ nranks = 3
  /\ Len(s1vec[0]) = 2 /\ Len(s1vec[1]) = 0 /\ Len(s1vec[2]) = 2
  /\ gret[0] # <<>>
  /\ gret[0][1] = <<Elem(1, 0, 1), Elem(1, 0, 2), Elem(1, 2, 1), Elem(1, 2, 2)>>

TotalsEqual ==
  /\ SumLenUpTo(s1vec, nranks - 1) = SumLenUpTo(s2vec, nranks - 1)
  /\ SumLenUpTo(s1vec, nranks - 1) = SumLenUpTo(ntask_vec, nranks - 1)

\* C6: rank 0 returns only a triple of equal lengths, which needs the summed local
\* lengths of s1, s2 and ntasks to be equal; when they are not, rank 0 does not get
\* past its EXPECTS, and a terminated run is one whose sums differ.
C6_EqualOrFatal ==
  /\ gret[0] # <<>> =>
       /\ Len(gret[0][1]) = Len(gret[0][2])
       /\ Len(gret[0][1]) = Len(gret[0][3])
       /\ TotalsEqual
  /\ ~TotalsEqual => ~GPast(0, "finish")
  /\ aborted => ~TotalsEqual /\ gret[0] = <<>>

C6_Witness ==
  /\ aborted
  /\ Len(s1_all[0]) = Len(s2_all[0])
  /\ Len(s1_all[0]) # Len(ntasks_all[0])

AllCollectives ==
  <<"gather_s1", "gather_s2", "gather_nt", "gatherv_s1", "gatherv_s2", "gatherv_nt">>

GLeftCollectives == \A r \in GRanks : GPast(r, "gatherv_nt")

\* C7: every rank, whatever its local lengths, calls the three gathers and then the
\* three gathervs, in that order, leaving none out; and when all ranks call
\* gather_task_vectors every rank leaves the last collective (or the run is terminated
\* by the EXPECTS of rank 0).
C7_SameCollectives ==
  /\ [](\A r \in GRanks :
          /\ gcalls[r] = SubSeq(AllCollectives, 1, Len(gcalls[r]))
          /\ gpc[r] > Len(GatherSteps) => gcalls[r] = AllCollectives)
  /\ <>(aborted \/ GLeftCollectives)

C7_Witness ==
  /\ nranks = 3
  /\ \E r \in GRanks : r # 0 /\ Len(s1vec[r]) = 0 /\ Len(s2vec[r]) = 0 /\ Len(ntask_vec[r]) = 0
  /\ \A r \in GRanks : gcalls[r] = AllCollectives /\ gret[r] # <<>>

InLog(p, step) == \E i \in 1 .. Len(log[p]) : log[p][i] = step

\* eigendecomposition, filter, broadcast, and all that builds the transform
Phase(step) ==
  CASE step = "eig" -> 1
    [] step = "filter" -> 2
    [] step = "bcast" -> 3
    [] OTHER -> 4

\* the steps a process has executed are in phase order, the first three once each
LogInPhaseOrder(p) ==
  \A i, j \in 1 .. Len(log[p]) :
    i < j => /\ Phase(log[p][i]) <= Phase(log[p][j])
             /\ Phase(log[p][i]) < 4 => Phase(log[p][i]) < Phase(log[p][j])

\* the step now taken by p writes another value into n_cond
WritesNcond(p) == n_cond'[p] # n_cond[p]

\* C8 as claimed: in gensqrtinv the steps of every process are in the order
\* eigendecomposition, filter, broadcast, transform construction, and no process
\* computes n_cond before the broadcast has completed.
C8_Original ==
  /\ [](entry = "gensqrtinv" => \A p \in Ranks : LogInPhaseOrder(p))
  /\ [][(entry = "gensqrtinv" /\ world_size > 1) =>
          \A p \in Ranks : WritesNcond(p) => InLog(p, "bcast")]_vars

\* C8 as amended: in gensqrtinv the steps each process executes are in the order
\* eigendecomposition, filter, broadcast, transform construction; a broadcast returns
\* only after rank 0's filter; no process sizes or allocates a tensor of the transform
\* before its broadcast has returned (a group of one has no broadcast); every process
\* computes the n_cond it sizes with after the broadcast, and the only earlier write of
\* n_cond is rank 0's own, inside its filter.
C8_StepOrder ==
  /\ [](entry = "gensqrtinv" =>
          /\ \A p \in Ranks :
               /\ LogInPhaseOrder(p)
               /\ InLog(p, "bcast") => InLog(0, "filter") /\ InLog(0, "eig")
               /\ InLog(p, "filter") => InLog(p, "eig")
               /\ (alloc_cols[p] # -1 \/ InLog(p, "alloc") \/ InLog(p, "allocX")) =>
                    /\ InLog(p, "ncond")
                    /\ world_size > 1 => InLog(p, "bcast")
                    /\ InLog(0, "filter")
          /\ (X_tmp.alloc \/ eps_tamm.alloc \/ X_alpha.alloc) => InLog(0, "filter"))
  /\ [][(entry = "gensqrtinv" /\ world_size > 1) =>
          \A p \in Ranks :
            WritesNcond(p) =>
              \/ InLog(p, "bcast")
              \/ p = 0 /\ ~InLog(0, "filter") /\ first_above_thresh' # NoIter]_vars

C8_Witness ==
  /\ entry = "gensqrtinv"
  /\ world_size >= 2
  /\ first_above_thresh >= 1
  /\ log[0] = <<"eig", "filter", "bcast", "ncond", "alloc", "epso", "barrier1", "allocX",
                "slice", "barrier2", "scale", "ret">>
  /\ log[1] = <<"bcast", "ncond", "alloc", "barrier1", "allocX", "barrier2", "scale", "ret">>

\* C9: when n_cond >= 1 the transform a process holds on return has N rows and n_cond
\* columns, and column i (from 0) is eigenvector n_illcond + i, each entry multiplied by
\* 1 / sqrt(eigenvalue[n_illcond + i]), n_illcond being the number of eigenvalues below
\* threshold: entry r of eigenvector k is 10 * k + r, and x / root is <<x, root>>.
C9_TransformColumns ==
  \A p \in Ranks :
    (Done(p) /\ n_cond[p] >= 1) =>
       /\ n_cond[p] = Len(Sevals) - NBelow
       /\ Len(Transform(p)) = Len(Sevals)
       /\ \A r \in 1 .. Len(Sevals) :
            /\ Len(Transform(p)[r]) = n_cond[p]
            /\ \A i \in 1 .. n_cond[p] :
                 /\ Transform(p)[r][i][1] = 10 * (NBelow + i - 1) + (r - 1)
                 /\ Transform(p)[r][i][2] * Transform(p)[r][i][2] = Sevals[NBelow + i]

C9_Witness ==
  /\ world_size >= 2
  /\ entry = "gensqrtinv_atscf"
  /\ \A p \in Ranks : Done(p)
  /\ NBelow = 1
  /\ Len(Sevals) = 3
  /\ Sevals[2] # Sevals[3]
  /\ threshold = Sevals[2]
  /\ ret[1][1] = <<<<Quot(10, ISqrt(Sevals[2])), Quot(20, ISqrt(Sevals[3]))>>,
                   <<Quot(11, ISqrt(Sevals[2])), Quot(21, ISqrt(Sevals[3]))>>,
                   <<Quot(12, ISqrt(Sevals[2])), Quot(22, ISqrt(Sevals[3]))>>>>

\* C10: run one after the other on the same matrix and threshold, the two entry
\* points end with the same n_illcond, n_cond, condition numbers and transform entries
\* on every process.
C10_SameResults ==
  (prev.valid /\ prev.entry # entry /\ \A p \in Ranks : Done(p)) =>
     \A p \in Ranks :
       /\ prev.n_illcond[p] = n_illcond[p]
       /\ prev.n_cond[p] = n_cond[p]
       /\ prev.condition_number[p] = condition_number[p]
       /\ prev.result_condition_number[p] = result_condition_number[p]
       /\ prev.transform[p] = Transform(p)

\* C11: gensqrtinv run twice in a row on the same matrix and threshold: the second
\* call reads the same N (nbf_orig still is the size of the matrix, while nbf and
\* n_lindep hold the rank the first call stored), and every n_cond the second call
\* computes, rank 0's in its filter and each process's after the broadcast, is the
\* n_cond the first call ended with.
C11_SameNcondTwice ==
  (prev.valid /\ prev.entry = "gensqrtinv" /\ entry = "gensqrtinv") =>
     \A p \in Ranks :
       /\ sys_data[p].nbf_orig = Len(Sevals)
       /\ Ndim(p) = Len(Sevals)
       /\ sys_data[p].nbf = prev.n_cond[p]
       /\ sys_data[p].n_lindep = prev.n_illcond[p]
       /\ (Past(p, "ncond") \/ (p = 0 /\ Past(0, "filter"))) => n_cond[p] = prev.n_cond[p]
       /\ Done(p) => ret[p][1] = prev.n_cond[p]

C11_Witness ==
  /\ prev.valid /\ prev.entry = "gensqrtinv" /\ entry = "gensqrtinv"
  /\ world_size >= 2
  /\ \A p \in Ranks : Done(p) /\ n_cond[p] = prev.n_cond[p]
  /\ prev.n_cond[0] >= 1
  /\ prev.n_cond[0] < Len(Sevals)
  /\ sys_data[0].nbf < sys_data[0].nbf_orig

\* the result condition number a process returns
RetResultConditionNumber(p) == ret[p][Len(ret[p])]

\* C12: whenever the filter leaves n_cond >= 1, the result condition number it
\* computed is the largest eigenvalue divided by eigenvalue[n_illcond], the first
\* retained one (the smallest eigenvalue >= threshold), and that is what rank 0
\* returns. The scenario [1e-12, 0.5, 1.0, 2.0] with threshold 1e-10, on perfect
\* squares: eigenvalues [1, 4, 9, 16] with threshold 2 give n_illcond = 1, n_cond = 3
\* and 16 / 4.
C12_ResultConditionNumber ==
  (Past(0, "filter") /\ n_cond[0] >= 1) =>
     /\ n_illcond[0] = NBelow
     /\ result_condition_number[0] = <<Sevals[Len(Sevals)], Sevals[n_illcond[0] + 1]>>
     /\ result_condition_number[0][2] >= threshold
     /\ \A i \in 1 .. Len(Sevals) :
          Sevals[i] >= threshold => Sevals[i] >= result_condition_number[0][2]
     /\ Done(0) => RetResultConditionNumber(0) = <<Sevals[Len(Sevals)], Sevals[NBelow + 1]>>
     /\ (Sevals = <<1, 4, 9, 16>> /\ threshold = 2) =>
          /\ n_illcond[0] = 1
          /\ n_cond[0] = 3
          /\ result_condition_number[0] = <<16, 4>>

C12_Witness ==
  /\ Sevals = <<1, 4, 9, 16>>
  /\ threshold = 2
  /\ Done(0)
  /\ n_illcond[0] = 1
  /\ n_cond[0] = 3
  /\ RetResultConditionNumber(0) = <<16, 4>>

IsCollective(step) == step \in Collectives

\* the collectives p has called and left in this call, in order
LogCollectives(p) == SelectSeq(log[p], IsCollective)

\* the collectives of one call, by entry point and group size alone
ExpectedCollectives ==
  (IF world_size > 1 THEN <<"bcast">> ELSE <<>>) \o
  (IF entry = "gensqrtinv"
   THEN <<"alloc", "barrier1", "allocX", "barrier2", "scale">>
   ELSE <<"alloc_a", "barrier_a", "dealloc">>)

AllReturned == \A p \in Ranks : Done(p)

\* C13: in both entry points every process calls the same collectives in the same
\* order, whatever its rank and whatever n_illcond is (the broadcast when P > 1, the
\* allocations, the barriers, the deallocations), a process that has returned has
\* called them all; while a process has not returned some process can take a step; and
\* every process eventually returns.
C13_CollectivesAndReturn ==
  /\ [](\A p \in Ranks :
          /\ LogCollectives(p) = SubSeq(ExpectedCollectives, 1, Len(LogCollectives(p)))
          /\ Done(p) => LogCollectives(p) = ExpectedCollectives)
  /\ [](~AllReturned => ENABLED Next)
  /\ <>AllReturned

\* C14: the warning is written exactly when n_illcond > 0: once rank 0 is past its
\* filter the eigenvalues listed are eigenvalue[0] .. eigenvalue[n_illcond - 1], in
\* that (ascending) order, which are exactly the eigenvalues below threshold, and the
\* list is empty when n_illcond = 0; nothing is listed before; and the only step that
\* writes is rank 0's filter, no other process moving in it.
C14_WarningListsDropped ==
  /\ [](IF Past(0, "filter")
        THEN /\ (n_illcond[0] > 0) <=> (printed # <<>>)
             /\ Len(printed) = n_illcond[0]
             /\ n_illcond[0] = NBelow
             /\ \A i \in 1 .. Len(printed) : printed[i] = Sevals[i] /\ printed[i] < threshold
             /\ IsAscending(printed)
             /\ \A i \in (Len(printed) + 1) .. Len(Sevals) : Sevals[i] >= threshold
        ELSE printed = <<>>)
  /\ [][printed' # printed =>
          /\ At(0, "filter")
          /\ pc'[0] # pc[0]
          /\ \A p \in Ranks \ {0} : pc'[p] = pc[p] /\ log'[p] = log[p]]_vars

C14_Witness ==
  /\ world_size >= 2
  /\ \A p \in Ranks : Done(p)
  /\ n_illcond[0] = 2
  /\ n_cond[0] = 1
  /\ Sevals[1] # Sevals[2]
  /\ printed = <<Sevals[1], Sevals[2]>>

\* a call without linear dependencies has ended and nothing was listed
C14_WitnessQuiet ==
  /\ world_size >= 2
  /\ \A p \in Ranks : Done(p)
  /\ n_illcond[0] = 0
  /\ printed = <<>>

\* a tensor of the block-cyclic path is allocated
BcAllocated == S_BC.alloc \/ V_sca.alloc \/ V_t.alloc \/ X_t.alloc \/ X_comp.alloc

\* C15: gensqrtinv built with USE_SCALAPACK: when the call has ended, by every process
\* returning or by the run being ended on an eigensolver error (or otherwise), none of
\* S_BC, V_sca, V_t, X_t and X_comp is still allocated.
C15_BuffersReleased ==
  (AllReturned \/ terminated \/ crashed) => ~BcAllocated

\* the raw condition number a process returns
RetConditionNumber(p) == ret[p][Len(ret[p]) - 1]

\* C16: on every process, at every point of a call of either entry point and whatever
\* the eigenvalues and the threshold are, condition_number is 0 (the pair <<0, 1>>), and
\* it is 0 in the tuple the process returns.
C16_ConditionNumberDefault ==
  \A p \in Ranks :
    /\ condition_number[p] = <<0, 1>>
    /\ Done(p) => RetConditionNumber(p) = <<0, 1>>

C16_Witness ==
  /\ world_size >= 2
  /\ \A p \in Ranks : Done(p) /\ RetConditionNumber(p) = <<0, 1>>
  /\ Len(Sevals) >= 2
  /\ Sevals[1] # Sevals[Len(Sevals)]
  /\ n_illcond[0] >= 1
  /\ n_cond[0] >= 1
  /\ result_condition_number[0][1] > result_condition_number[0][2]

\* C17: in a group of more than one process only n_illcond is passed on: every process
\* other than rank 0 keeps result_condition_number at its default 0 and returns 0; the
\* processes that have computed n_cond agree on it; rank 0 returns the largest
\* eigenvalue over the first retained one when an eigenvalue is retained; and what rank
\* 0 returns as result condition number differs from what the others return.
C17_DiagnosticsOnRankZero ==
  world_size > 1 =>
    \A p \in Ranks \ {0} :
      /\ result_condition_number[p] = <<0, 1>>
      /\ Done(p) => RetResultConditionNumber(p) = <<0, 1>>
      /\ (Past(p, "ncond") /\ Past(0, "ncond")) =>
            n_cond[p] = n_cond[0] /\ n_illcond[p] = n_illcond[0]
      /\ (Done(0) /\ SomeRetained) =>
            RetResultConditionNumber(0) = <<Sevals[Len(Sevals)], Sevals[NBelow + 1]>>
      /\ (Done(0) /\ Done(p)) =>
            /\ RetResultConditionNumber(0) # RetResultConditionNumber(p)
            /\ ret[0][Len(ret[0]) - 2] = ret[p][Len(ret[p]) - 2]

C17_Witness ==
  /\ world_size >= 2
  /\ \A p \in Ranks : Done(p)
  /\ Sevals = <<1, 4, 9>>
  /\ threshold = 4
  /\ RetResultConditionNumber(0) = <<9, 4>>
  /\ RetResultConditionNumber(1) = <<0, 1>>
  /\ ret[0][Len(ret[0]) - 2] = 2
  /\ ret[1][Len(ret[1]) - 2] = 2

====
